---- MODULE Spec2Model ----
(***************************************************************************)
(* Job lifecycle of the proovid backend: the API process (backend/api.py)  *)
(* creates jobs in the DynamoDB job table and enqueues dispatch messages   *)
(* to SQS; the worker process (backend/worker/worker.py) polls the queue,  *)
(* resolves each message against the job table, runs one analysis tool     *)
(* (backend/worker/agent.py) and writes the result back; the search layer  *)
(* (backend/cost_optimized_aws_vector.py) scans the same table.            *)
(*                                                                         *)
(* The job table is modelled with DynamoDB's semantics: put_item replaces  *)
(* the whole item, update_item sets the named attributes and creates the   *)
(* item when it does not exist.  An attribute that is absent is None (for  *)
(* strings), 0 (for timestamps, message ids and counters: all of them are  *)
(* tested for truthiness by the code) or FALSE (for flags).                *)
(*                                                                         *)
(* The API handlers are "async def" functions that call boto3 blocking, so *)
(* one API call runs at a time (one slot, api); its store and queue calls  *)
(* interleave with the steps of the worker process.                        *)
(***************************************************************************)
EXTENDS Integers, Sequences, FiniteSets, TLC

\* ---------------------------------------------------------------- bounds
MaxJobs == 1        \* job ids handed out by /analyze
MaxDispatch == 2    \* calls of start_worker_container
MaxTicks == 1       \* the clock runs 1..MaxTicks+1
MaxFaults == 1      \* worker crashes and failing job-table calls

\* ------------------------------------------------------------- constants
MaxNumberOfMessages == 5     \* worker.py: receive_message(MaxNumberOfMessages=5)
SendAttempts == 2            \* api.py: for attempt in range(1, 3)

None == "none"
Users == {"u1", "u2"}
Sessions == {"s1"}
JobIds == 1..MaxJobs

\* worker.py tools_map, restricted to the analysis tools of agent.py
tools_map == {"analyze_video_complete", "detect_blackframes",
              "rekognition_detect_text", "rekognition_detect_labels"}
\* the tools a client asks for in this model: one that lets its exceptions
\* out and one that catches them
RequestTools == {"detect_blackframes", "rekognition_detect_labels"}

Email(u) == u

VARIABLES
    store,      \* job table: job_id -> item, or NoJob
    owner0,     \* ghost: job_id -> the user that created the job (None: not created)
    nextJob,    \* next job id uuid4() hands out
    queue,      \* SQS: set of messages [id, job_id, tool, visible]
    ndisp,      \* calls of start_worker_container so far (the next MessageId)
    now,        \* int(time.time())
    api,        \* the API call in progress (pc = "respond": its response)
    worker,     \* the worker process
    faults      \* injected failures so far (crashes, failed store calls)

vars == <<store, owner0, nextJob, queue, ndisp, now, api, worker, faults>>

\* an item with every attribute absent
EmptyItem ==
    [status |-> None, user_id |-> None, user_email |-> None, session_id |-> None,
     video |-> None, s3 |-> FALSE, created_at |-> 0, result |-> None,
     sqs_message_id |-> 0, enqueued_at |-> 0, enqueue_attempts |-> 0,
     enqueue_last_error |-> FALSE, indexed |-> FALSE]

\* no item under this key
NoJob == [EmptyItem EXCEPT !.status = "nojob"]

Exists(j) == store[j] # NoJob

\* DynamoDB update_item: the item as it is, or an item holding only its key
ItemForUpdate(j) == IF Exists(j) THEN store[j] ELSE EmptyItem

\* a call of the job table (or the process itself) may fail while the budget
\* of injected failures lasts
Fails == faults < MaxFaults /\ faults' = faults + 1


\* ------------------------------------------------------------ API process

\* api.py save_job_entry: the item it puts (put_item replaces the whole item).
\* Only truthy user_id / user_email / session_id are stored; created_at is the
\* current time unless one is passed (no caller passes one); a video dict with
\* bucket and key also sets s3_bucket, s3_key and file_url.
save_job_entry(status, video, user_id, user_email, session_id) ==
    [EmptyItem EXCEPT !.status = status, !.created_at = now,
                      !.user_id = user_id, !.user_email = user_email,
                      !.session_id = session_id,
                      !.video = video, !.s3 = (video # None)]

\* the video attribute of an item whose video dict has no "tool" key (an item
\* no endpoint of this API writes; every reader of video.tool provides for it)
NoToolKey == "no_tool_key"

\* the tool named by an item's video attribute, None when there is none
VideoTool(item) == IF item.video \in {None, "", NoToolKey} THEN None ELSE item.video

\* what the chat endpoints answer with: the branch that produced the text, the
\* message asked, the jobs whose data the text is built from, the
\* matched_videos of the ranked retrieval, the number of Bedrock invoke_model
\* calls made for it, and whether the text is the empty string
Answer(branch, query, jobs, matches, llm) ==
    [branch |-> branch, query |-> query, jobs |-> jobs, matches |-> matches,
     llm |-> llm, empty |-> FALSE]

\* no answer (None in the code)
NoAnswer == Answer(None, None, {}, {}, 0)

\* the arguments of a search call, and as ghosts the table it read and the
\* time it ran at (None: no search)
NoSearch == [query |-> None, limit |-> 0, snapshot |-> <<>>, at |-> 0]

\* code is the HTTP status of the response once it has been sent;
\* response_cache is the cache of the chatbot instance the handler uses (a
\* handler that builds its own instance starts with an empty one)
IdleApi ==
    [pc |-> "idle", op |-> None, user |-> None, session |-> None, videos |-> <<>>,
     jobs |-> <<>>, job |-> 0, tool |-> None, attempt |-> 0, message_id |-> 0,
     todo |-> <<>>, requeued |-> 0, skipped |-> 0, code |-> 0, answer |-> NoAnswer,
     search |-> NoSearch, response_cache |-> {}]

\* the handler returns (or raises): the response goes out
Response(op, job, code) ==
    [IdleApi EXCEPT !.pc = "respond", !.op = op, !.job = job, !.code = code]

\* start_worker_container is entered for (job, tool): the send loop comes next
EnterDispatch(a, job, tool) ==
    [a EXCEPT !.pc = "send", !.job = job, !.tool = tool, !.attempt = 1, !.message_id = 0]

\* sequences over S of length 1..n
SeqsUpTo(S, n) == UNION {[1..k -> S] : k \in 1..n}

\* POST /analyze, up to the loop over request.videos
AnalyzeStart(u, sid, vs) ==
    /\ api.pc = "idle"
    /\ nextJob + Len(vs) - 1 <= MaxJobs
    /\ ndisp + Len(vs) <= MaxDispatch
    /\ api' = [IdleApi EXCEPT !.pc = "put", !.op = "analyze", !.user = u,
                               !.session = sid, !.videos = vs]
    /\ UNCHANGED <<store, owner0, nextJob, queue, ndisp, now, worker, faults>>

\* one iteration of the loop, up to save_job_entry: the job id is drawn, the
\* first job's id becomes the session id when the client sent none, and the
\* item is put with status queued.  A failing put_item raises: HTTP 500.
AnalyzePut ==
    /\ api.pc = "put" /\ api.op = "analyze"
    /\ LET job == nextJob
           sid == IF api.session = None /\ api.jobs = <<>> THEN ToString(job)
                  ELSE api.session
       IN \/ /\ store' = [store EXCEPT ![job] =
                     save_job_entry("queued", Head(api.videos), api.user,
                                    Email(api.user), sid)]
             /\ owner0' = [owner0 EXCEPT ![job] = api.user]
             /\ nextJob' = nextJob + 1
             /\ ndisp' = ndisp + 1
             /\ api' = EnterDispatch([api EXCEPT !.session = sid], job, Head(api.videos))
             /\ UNCHANGED faults
          \/ /\ Fails
             /\ api' = Response("analyze", 0, 500)
             /\ UNCHANGED <<store, owner0, nextJob, ndisp>>
    /\ UNCHANGED <<queue, now, worker>>

\* ---- start_worker_container: the send loop and the diagnostics update

\* the message body start_worker_container builds; ok says that the body is
\* a JSON object (json.dumps of a dict always is)
Message(id, job, tool) ==
    [id |-> id, job_id |-> job, tool |-> tool, visible |-> TRUE, ok |-> TRUE]

\* a send loop without the break: after a successful send the next attempt
\* follows
SendAttemptNoBreak ==
    /\ api.pc = "send"
    /\ \/ /\ queue' = queue \cup {Message(ndisp, api.job, api.tool)}
          /\ api' = IF api.attempt < SendAttempts
                    THEN [api EXCEPT !.attempt = @ + 1, !.message_id = ndisp]
                    ELSE [api EXCEPT !.pc = "diag", !.message_id = ndisp]
       \/ /\ api.attempt < SendAttempts
          /\ api' = [api EXCEPT !.attempt = @ + 1]
          /\ UNCHANGED queue
       \/ /\ api.attempt = SendAttempts
          /\ api' = [api EXCEPT !.pc = "diag"]
          /\ UNCHANGED queue
    /\ UNCHANGED <<store, owner0, nextJob, ndisp, now, worker, faults>>

\* one pass of "for attempt in range(1, 3)": sqs.send_message succeeds (the
\* loop breaks with the MessageId) or raises (the next attempt follows, and
\* after the last one the loop ends with message_id still "")
SendAttempt ==
    /\ api.pc = "send"
    /\ \/ /\ queue' = queue \cup {Message(ndisp, api.job, api.tool)}
          /\ api' = [api EXCEPT !.pc = "diag", !.message_id = ndisp]
       \/ /\ api.attempt < SendAttempts
          /\ api' = [api EXCEPT !.attempt = @ + 1]
          /\ UNCHANGED queue
       \/ /\ api.attempt = SendAttempts
          /\ api' = [api EXCEPT !.pc = "diag", !.message_id = 0]
          /\ UNCHANGED queue
    /\ UNCHANGED <<store, owner0, nextJob, ndisp, now, worker, faults>>

\* a dispatcher that marks the job error when it runs out of attempts
DiagItemMarksError(item, message_id) ==
    IF message_id # 0
    THEN [item EXCEPT !.sqs_message_id = message_id, !.enqueued_at = now,
                      !.enqueue_attempts = @ + 1]
    ELSE [item EXCEPT !.status = "error", !.enqueue_last_error = TRUE,
                      !.enqueue_attempts = @ + 1]

\* the update_item after the loop: on success sqs_message_id, enqueued_at and
\* enqueue_attempts + 1; when every attempt failed enqueue_last_error,
\* enqueue_error_at and enqueue_attempts + 1
DiagItem(item, message_id) ==
    IF message_id # 0
    THEN [item EXCEPT !.sqs_message_id = message_id, !.enqueued_at = now,
                      !.enqueue_attempts = @ + 1]
    ELSE [item EXCEPT !.enqueue_last_error = TRUE, !.enqueue_attempts = @ + 1]

\* what the caller of start_worker_container does when it returns: /analyze
\* goes on with the next video or answers with the jobs, requeue-stale goes
\* on with the next item or answers with the counts, /jobs/requeue answers,
\* the background task of a restart ends
ReturnOk(a) ==
    CASE a.op = "analyze" ->
           IF Len(a.videos) > 1
           THEN [a EXCEPT !.pc = "put", !.jobs = Append(@, a.job), !.videos = Tail(@)]
           ELSE [Response("analyze", a.job, 200) EXCEPT !.jobs = Append(a.jobs, a.job)]
      [] a.op = "stale" ->
           IF Len(a.todo) > 1
           THEN EnterDispatch([a EXCEPT !.requeued = @ + 1, !.todo = Tail(@)],
                              a.todo[2].job_id, a.todo[2].tool)
           ELSE [Response("stale", a.job, 200) EXCEPT
                    !.requeued = a.requeued + 1, !.skipped = a.skipped]
      [] a.op = "requeue" -> Response("requeue", a.job, 200)
      [] OTHER -> IdleApi

\* and when it raises: /analyze lets the exception through (HTTP 500), the
\* requeue endpoints turn it into HTTP 500, the background task of a restart
\* only logs it
ReturnRaise(a) ==
    IF a.op = "restart" THEN IdleApi ELSE Response(a.op, a.job, 500)

\* the update_item is applied, or it fails: on the exhaustion path the
\* failure is logged and the send's exception is raised all the same, on the
\* success path the failure itself is raised
DiagUpdate ==
    /\ api.pc = "diag"
    /\ \/ /\ store' = [store EXCEPT ![api.job] =
                        DiagItem(ItemForUpdate(api.job), api.message_id)]
          /\ api' = IF api.message_id # 0 THEN ReturnOk(api) ELSE ReturnRaise(api)
          /\ UNCHANGED faults
       \/ /\ Fails
          /\ api' = ReturnRaise(api)
          /\ UNCHANGED store
    /\ ndisp' = IF api'.pc = "send" THEN ndisp + 1 ELSE ndisp
    /\ UNCHANGED <<owner0, nextJob, queue, now, worker>>

\* the response has been sent
ApiReturn ==
    /\ api.pc = "respond"
    /\ api' = IdleApi
    /\ UNCHANGED <<store, owner0, nextJob, queue, ndisp, now, worker, faults>>

\* ---- the other endpoints

\* "if not tool: tool = 'analyze_video_complete'" of the two requeue endpoints
DefaultTool(tool) == IF tool = None THEN "analyze_video_complete" ELSE tool

\* POST /jobs/requeue: 404 without an item, 403 when the item carries another
\* user's user_id, 400 without bucket and key; the status is not written
RequeueSingleJob(u, j) ==
    /\ api.pc = "idle"
    /\ ndisp < MaxDispatch
    /\ LET item == store[j]
       IN IF ~Exists(j)
          THEN /\ api' = Response("requeue", j, 404)
               /\ UNCHANGED ndisp
          ELSE IF item.user_id # None /\ item.user_id # u
          THEN /\ api' = Response("requeue", j, 403)
               /\ UNCHANGED ndisp
          ELSE IF ~item.s3
          THEN /\ api' = Response("requeue", j, 400)
               /\ UNCHANGED ndisp
          ELSE /\ api' = EnterDispatch([IdleApi EXCEPT !.op = "requeue"],
                                       j, DefaultTool(VideoTool(item)))
               /\ ndisp' = ndisp + 1
    /\ UNCHANGED <<store, owner0, nextJob, queue, now, worker, faults>>

\* the job ids of S in ascending order (the order of the scan)
RECURSIVE Ascending(_)
Ascending(S) ==
    IF S = {} THEN <<>>
    ELSE LET m == CHOOSE x \in S : \A y \in S : x <= y
         IN <<m>> \o Ascending(S \ {m})

\* age of a scanned item: now_ts - int(it.get("created_at", now_ts))
Age(item) == IF item.created_at = 0 THEN 0 ELSE now - item.created_at

\* POST /jobs/requeue-stale: the scan for status = queued, and the loop's
\* bookkeeping up to the first call of start_worker_container
QueuedJobs == {j \in JobIds : Exists(j) /\ store[j].status = "queued"}
StaleJobs(max_age) == {j \in QueuedJobs : Age(store[j]) >= max_age /\ store[j].s3}
RecentJobs(max_age) == {j \in QueuedJobs : Age(store[j]) < max_age}

StaleTodo(max_age) ==
    LET js == Ascending(StaleJobs(max_age))
    IN [i \in 1..Len(js) |->
          [job_id |-> js[i], tool |-> DefaultTool(VideoTool(store[js[i]]))]]

RequeueStaleJobs(u, max_age) ==
    /\ api.pc = "idle"
    /\ LET todo == StaleTodo(max_age)
           skipped == Cardinality(RecentJobs(max_age))
       IN /\ ndisp + Len(todo) <= MaxDispatch
          /\ IF todo = <<>>
             THEN /\ api' = [Response("stale", 0, 200) EXCEPT !.skipped = skipped]
                  /\ UNCHANGED ndisp
             ELSE /\ api' = EnterDispatch(
                               [IdleApi EXCEPT !.op = "stale", !.todo = todo,
                                               !.skipped = skipped],
                               todo[1].job_id, todo[1].tool)
                  /\ ndisp' = ndisp + 1
    /\ UNCHANGED <<store, owner0, nextJob, queue, now, worker, faults>>

\* POST /jobs/{job_id}/restart: no item or no video is HTTP 500 (the handler's
\* "except Exception" also catches its own HTTPException); otherwise the item
\* is replaced by save_job_entry(job_id, "queued", video=video_info) and the
\* dispatch runs as a background task after the response
RestartTool(item) == IF item.video = NoToolKey THEN "detect_blackframes" ELSE item.video

RestartJob(u, j) ==
    /\ api.pc = "idle"
    /\ ndisp < MaxDispatch
    /\ IF ~Exists(j) \/ store[j].video = None
       THEN /\ api' = Response("restart", j, 500)
            /\ UNCHANGED <<store, ndisp>>
       ELSE /\ store' = [store EXCEPT ![j] =
                            save_job_entry("queued", store[j].video, None, None, None)]
            /\ api' = EnterDispatch([IdleApi EXCEPT !.op = "restart", !.code = 200],
                                    j, RestartTool(store[j]))
            /\ ndisp' = ndisp + 1
    /\ UNCHANGED <<owner0, nextJob, queue, now, worker, faults>>

\* DELETE /jobs/{job_id}
DeleteJob(u, j) ==
    /\ api.pc = "idle"
    /\ Exists(j)
    /\ store' = [store EXCEPT ![j] = NoJob]
    /\ api' = Response("delete", j, 200)
    /\ UNCHANGED <<owner0, nextJob, queue, ndisp, now, worker, faults>>

\* time passes
Tick ==
    /\ now <= MaxTicks
    /\ now' = now + 1
    /\ UNCHANGED <<store, owner0, nextJob, queue, ndisp, api, worker, faults>>

\* --------------------------------------------------------- worker process

\* settled is a ghost: the ids of the batch's messages whose processing has
\* committed a terminal status or found no job
IdleWorker ==
    [pc |-> "poll", batch |-> <<>>, i |-> 0, job_id |-> 0, tool_name |-> None,
     job_item |-> NoJob, result |-> None, settled |-> {}]

\* the messages of S as the list receive_message returns, oldest first
Batch(S) ==
    LET ids == Ascending({m.id : m \in S})
    IN [k \in 1..Len(ids) |-> CHOOSE m \in S : m.id = ids[k]]

Visible == {m \in queue : m.visible}

\* main: sqs.receive_message(MaxNumberOfMessages=5, VisibilityTimeout=300)
\* returns some of the visible messages and hides them; an empty answer loops
WorkerReceive ==
    /\ worker.pc = "poll"
    /\ \E S \in SUBSET Visible :
          /\ S # {} /\ Cardinality(S) <= MaxNumberOfMessages
          /\ worker' = [IdleWorker EXCEPT !.pc = "resolve", !.batch = Batch(S), !.i = 1]
          /\ queue' = {IF m \in S THEN [m EXCEPT !.visible = FALSE] ELSE m : m \in queue}
    /\ UNCHANGED <<store, owner0, nextJob, ndisp, now, api, faults>>

\* the exception leaves _process_messages and the rest of the batch is given
\* up: the messages stay hidden and are never deleted
ContinueRaises(w) == [IdleWorker EXCEPT !.settled = w.settled]

\* "continue": the next message of the batch, or the end of _process_messages
Continue(w) ==
    IF w.i < Len(w.batch)
    THEN [IdleWorker EXCEPT !.pc = "resolve", !.batch = w.batch, !.i = w.i + 1,
                            !.settled = w.settled]
    ELSE [IdleWorker EXCEPT !.pc = "ack", !.batch = w.batch, !.i = w.i,
                            !.settled = w.settled]

\* the message in hand is settled
Settle(w) == [w EXCEPT !.settled = @ \cup {w.batch[w.i].id}]

\* the tool of a message: the message's own, else the item's video.tool, else
\* the default
ResolveTool(msg_tool, item) ==
    IF msg_tool \notin {None, ""} THEN msg_tool
    ELSE IF VideoTool(item) # None THEN VideoTool(item)
    ELSE "analyze_video_complete"

\* job_item: of the item read, the attributes the rest of _process_messages
\* reads (created_at, s3_bucket / s3_key, video, user_id, user_email,
\* session_id), and the status it had
JobItem(item) ==
    [EmptyItem EXCEPT !.status = item.status, !.created_at = item.created_at, !.s3 = item.s3,
                      !.video = item.video, !.user_id = item.user_id,
                      !.user_email = item.user_email, !.session_id = item.session_id]

\* the local job_id of _process_messages when message i of the batch is
\* reached: the job_id of the last message before it whose body could be read,
\* 0 when there is none (the name is not bound yet)
StaleJobId(w) ==
    LET read == {k \in 1..(w.i - 1) : w.batch[k].ok}
    IN  IF read = {} THEN 0
        ELSE w.batch[CHOOSE k \in read : \A n \in read : n <= k].job_id

\* a resolve step that goes on with a job it has not found, as if get_item
\* had returned an empty item
WorkerResolveUpserts ==
    /\ worker.pc = "resolve"
    /\ LET msg == worker.batch[worker.i]
           item == store[msg.job_id]
       IN IF ~msg.ok
          THEN /\ worker' = [worker EXCEPT !.pc = "error", !.job_id = StaleJobId(worker),
                                           !.result = "exception"]
               /\ UNCHANGED faults
          ELSE \/ /\ Fails
                  /\ worker' = Continue(worker)
               \/ /\ Exists(msg.job_id) /\ ~item.s3
                  /\ worker' = Continue(worker)
                  /\ UNCHANGED faults
               \/ /\ ~Exists(msg.job_id) \/ item.s3
                  /\ worker' = [worker EXCEPT !.pc = "mark", !.job_id = msg.job_id,
                                              !.tool_name = ResolveTool(msg.tool, ItemForUpdate(msg.job_id)),
                                              !.job_item = JobItem(ItemForUpdate(msg.job_id))]
                  /\ UNCHANGED faults
    /\ UNCHANGED <<store, owner0, nextJob, queue, ndisp, now, api>>

\* _process_messages, from the message body to the end of the "fetch job
\* details" block.  A body that is no JSON object raises before job_id is
\* assigned: the outer except branch follows with job_id as the last message
\* left it.  Otherwise get_item fails or times out, finds no item, or finds
\* an item without s3_bucket / s3_key (each of them "continue"), or the item
\* is kept as job_item.
WorkerResolve ==
    /\ worker.pc = "resolve"
    /\ LET msg == worker.batch[worker.i]
           item == store[msg.job_id]
       IN IF ~msg.ok
          THEN /\ worker' = [worker EXCEPT !.pc = "error", !.job_id = StaleJobId(worker),
                                           !.result = "exception"]
               /\ UNCHANGED faults
          ELSE \/ /\ Fails                                  \* error or timeout
                  /\ worker' = Continue(worker)
               \/ /\ ~Exists(msg.job_id) \/ ~item.s3
                  /\ worker' = Continue(IF Exists(msg.job_id) THEN worker ELSE Settle(worker))
                  /\ UNCHANGED faults
               \/ /\ Exists(msg.job_id) /\ item.s3
                  /\ worker' = [worker EXCEPT !.pc = "mark", !.job_id = msg.job_id,
                                              !.tool_name = ResolveTool(msg.tool, item),
                                              !.job_item = JobItem(item)]
                  /\ UNCHANGED faults
    /\ UNCHANGED <<store, owner0, nextJob, queue, ndisp, now, api>>

\* update_item SET status = running, updated_at: the other attributes stay;
\* a failure is only logged
MarkRunning(item) == [item EXCEPT !.status = "running"]

WorkerMarkRunning ==
    /\ worker.pc = "mark"
    /\ \/ /\ store' = [store EXCEPT ![worker.job_id] =
                        MarkRunning(ItemForUpdate(worker.job_id))]
          /\ UNCHANGED faults
       \/ /\ Fails
          /\ UNCHANGED store
    /\ worker' = [worker EXCEPT !.pc = "exec"]
    /\ UNCHANGED <<owner0, nextJob, queue, ndisp, now, api>>

\* ---- agent.py: what a tool run gives.  A run meets no failure, cannot fetch
\* the source media from S3, or has its Rekognition calls fail.
Failures == {"none", "media_missing", "api_failure"}

\* TRUE when the tool lets the exception out.  detect_blackframes downloads
\* outside any try block; the two rekognition tools catch everything and
\* return a JSON document with an "error" key; analyze_video_complete calls
\* detect_blackframes first.
ToolRaises(tool, f) ==
    /\ f = "media_missing"
    /\ tool \in {"detect_blackframes", "analyze_video_complete"}

\* the JSON document a tool returns when it does not raise
ToolResult(tool, f) ==
    IF f = "media_missing" THEN "error_json"                 \* {"count": 0, ..., "error": str(e)}
    ELSE IF f = "api_failure" /\ tool # "detect_blackframes"
         THEN "empty_analysis"                               \* frames skipped with a warning
    ELSE "analysis"

\* "Process the job": an unknown tool raises ValueError, a known one runs
WorkerExec ==
    /\ worker.pc = "exec"
    /\ \E f \in Failures :
          IF worker.tool_name \notin tools_map \/ ToolRaises(worker.tool_name, f)
          THEN worker' = [worker EXCEPT !.pc = "error", !.result = "exception"]
          ELSE worker' = [worker EXCEPT !.pc = "index",
                                        !.result = ToolResult(worker.tool_name, f)]
    /\ UNCHANGED <<store, owner0, nextJob, queue, ndisp, now, api, faults>>

\* an error write whose result depends on the result already stored
ErrorItemAppends(item) ==
    [item EXCEPT !.status = "error",
                 !.result = IF item.result = "exception" THEN "exception exception"
                            ELSE "exception"]

\* the except branch: update_item SET status = error, updated_at, result =
\* str(e); then "continue"
ErrorItem(item) == [item EXCEPT !.status = "error", !.result = "exception"]

\* with job_id not bound the update raises a NameError that the handler's
\* own try block catches: nothing is written
WorkerWriteError ==
    /\ worker.pc = "error"
    /\ IF worker.job_id = 0
       THEN /\ worker' = Continue(worker)
            /\ UNCHANGED <<store, faults>>
       ELSE \/ /\ store' = [store EXCEPT ![worker.job_id] =
                             ErrorItem(ItemForUpdate(worker.job_id))]
               /\ worker' = Continue(Settle(worker))
               /\ UNCHANGED faults
            \/ /\ Fails
               /\ worker' = Continue(worker)
               /\ UNCHANGED store
    /\ UNCHANGED <<owner0, nextJob, queue, ndisp, now, api>>

\* cost_optimized_aws_vector.py store_video_analysis: update_item SET
\* search_keywords, semantic_tags, searchable_content, has_labels, has_text,
\* has_blackframes, text_content, search_updated_at.  The callers pass neither
\* user_id nor session_id, so those attributes are not written.
store_video_analysis(item) == [item EXCEPT !.indexed = TRUE]

\* "Store in Vector DB for semantic search": a failure is only logged
WorkerIndex ==
    /\ worker.pc = "index"
    /\ \/ /\ store' = [store EXCEPT ![worker.job_id] =
                        store_video_analysis(ItemForUpdate(worker.job_id))]
          /\ UNCHANGED faults
       \/ /\ Fails
          /\ UNCHANGED store
    /\ worker' = [worker EXCEPT !.pc = "done"]
    /\ UNCHANGED <<owner0, nextJob, queue, ndisp, now, api>>

\* the item of the "done" put_item, built from job_item (the item read at
\* resolve time): job_id, status, result, updated_at, created_at (the current
\* time when job_item has none), s3_bucket, s3_key, file_url, video,
\* video_info, the truthy ones of user_id, user_email, session_id, summary,
\* has_blackframes, has_text_detection.  No other attribute is copied.
DoneItem(job_item, result) ==
    [EmptyItem EXCEPT !.status = "done", !.result = result,
                      !.created_at = IF job_item.created_at = 0 THEN now
                                     ELSE job_item.created_at,
                      !.s3 = job_item.s3, !.video = job_item.video,
                      !.user_id = job_item.user_id,
                      !.user_email = job_item.user_email,
                      !.session_id = job_item.session_id]

\* put_item(Item=item): replaces the item, or fails / times out (logged)
WorkerWriteDone ==
    /\ worker.pc = "done"
    /\ \/ /\ store' = [store EXCEPT ![worker.job_id] =
                        DoneItem(worker.job_item, worker.result)]
          /\ worker' = Continue(Settle(worker))
          /\ UNCHANGED faults
       \/ /\ Fails
          /\ worker' = Continue(worker)
          /\ UNCHANGED store
    /\ UNCHANGED <<owner0, nextJob, queue, ndisp, now, api>>

BatchIds(w) == {w.batch[k].id : k \in DOMAIN w.batch}

\* main: after _process_messages returns, every message of the batch is deleted
WorkerAck ==
    /\ worker.pc = "ack"
    /\ queue' = {m \in queue : m.id \notin BatchIds(worker)}
    /\ worker' = IdleWorker
    /\ UNCHANGED <<store, owner0, nextJob, ndisp, now, api, faults>>

\* the worker process dies and is started again; the messages it held become
\* visible again when their visibility timeout ends
WorkerCrash ==
    /\ worker.pc # "poll"
    /\ Fails
    /\ queue' = {IF m.id \in BatchIds(worker) THEN [m EXCEPT !.visible = TRUE] ELSE m
                 : m \in queue}
    /\ worker' = IdleWorker
    /\ UNCHANGED <<store, owner0, nextJob, ndisp, now, api>>

\* api.py emergency_migrate_data (run by every chat retrieval) and
\* reindex_jobs_background: store_video_analysis for a finished job that has
\* a result and an s3_key
Reindex(j) ==
    /\ Exists(j)
    /\ store[j].status = "done" /\ store[j].result # None /\ store[j].s3
    /\ ~store[j].indexed
    /\ store' = [store EXCEPT ![j] = store_video_analysis(store[j])]
    /\ UNCHANGED <<owner0, nextJob, queue, ndisp, now, api, worker, faults>>

\* ------------------------------------------------------------------ reads

\* the answer of GET /job-status for a job that is not the caller's or does
\* not exist
NotFound == [status |-> "not_found", result |-> ""]

\* api.py job_status for caller u: no item is not_found; an item whose
\* user_id is set and differs from the caller's is not_found; otherwise the
\* item's status ("unknown" without one) and result ("" without one)
job_status(u, j) ==
    IF ~Exists(j) THEN NotFound
    ELSE IF store[j].user_id # None /\ store[j].user_id # u THEN NotFound
    ELSE [status |-> IF store[j].status = None THEN "unknown" ELSE store[j].status,
          result |-> IF store[j].result = None THEN "" ELSE store[j].result]

\* the words of the uploaded file's name, which store_video_analysis puts
\* into searchable_content, and the queries of this model: a word of the
\* file name, a word no item holds, and a query without any keyword
FileWords == {"clip", "car", "bmw"}
Queries == {"clip", "sunset", ""}

\* semantic_search: the keywords of a query (words longer than two letters)
Keywords(query) == IF query = "" THEN {} ELSE {query}

\* searchable_content of an item ("" when the search fields are absent)
SearchableContent(item) == IF item.indexed THEN FileWords ELSE {}

\* _calculate_match_score, as far as it is positive or not: one point for
\* every keyword found in searchable_content
MatchScore(item, keywords) == Cardinality(keywords \cap SearchableContent(item))

\* cost_optimized_aws_vector.py semantic_search: the scan keeps the items
\* whose searchable_content holds a keyword (every item when there is no
\* keyword), and, only when a user_id is passed, whose user_id equals it;
\* of these the ones with a positive score are returned
semantic_search(query, user_id) ==
    {j \in JobIds :
        /\ Exists(j)
        /\ Keywords(query) # {} => Keywords(query) \cap SearchableContent(store[j]) # {}
        /\ (user_id # None /\ Keywords(query) # {}) => store[j].user_id = user_id
        /\ MatchScore(store[j], Keywords(query)) > 0}

\* api.py semantic_search_videos (POST /semantic-search) for caller u:
\* vector_db.semantic_search(request.query, request.limit)
semantic_search_videos(u, query) == semantic_search(query, None)

\* api.py smart_rag_search (POST /chat, POST /ask) for caller u:
\* chatbot.chat(query, user_id=u) searches with the caller's user_id
smart_rag_search(u, query) == semantic_search(query, u)

\* ------------------------------------------------------------------ spec

Init ==
    /\ store = [j \in JobIds |-> NoJob]
    /\ owner0 = [j \in JobIds |-> None]
    /\ nextJob = 1
    /\ queue = {}
    /\ ndisp = 0
    /\ now = 1
    /\ api = IdleApi
    /\ worker = IdleWorker
    /\ faults = 0

Next ==
    \/ \E u \in Users, sid \in Sessions \cup {None}, vs \in SeqsUpTo(RequestTools, MaxJobs) :
          AnalyzeStart(u, sid, vs)
    \/ AnalyzePut
    \/ SendAttempt
    \/ DiagUpdate
    \/ ApiReturn
    \/ \E u \in Users, j \in JobIds : RequeueSingleJob(u, j)
    \/ \E u \in Users, max_age \in 0..MaxTicks : RequeueStaleJobs(u, max_age)
    \/ \E u \in Users, j \in JobIds : RestartJob(u, j)
    \/ \E u \in Users, j \in JobIds : DeleteJob(u, j)
    \/ Tick
    \/ WorkerReceive
    \/ WorkerResolve
    \/ WorkerMarkRunning
    \/ WorkerExec
    \/ WorkerWriteError
    \/ WorkerIndex
    \/ WorkerWriteDone
    \/ WorkerAck
    \/ WorkerCrash
    \/ \E j \in JobIds : Reindex(j)

Spec == Init /\ [][Next]_vars

\* ---------------------------------------------------------------- claims

Terminal(status) == status \in {"done", "error"}

\* C1: a job's status only moves forward along queued -> running -> done or
\* error; from done or error it moves only to queued, and only by a Restart
\* or a Requeue (or the job is deleted); no step moves a done or error job
\* to running.
C1_StatusOrder ==
    [][\A j \in JobIds :
          (Terminal(store[j].status) /\ store'[j].status # store[j].status)
          => \/ store'[j].status = "nojob"
             \/ /\ store'[j].status = "queued"
                /\ api'.op \in {"restart", "requeue"} /\ api'.job = j]_vars

\* C2: GetStatus called by a user for a job another user created answers
\* not_found with an empty result, whatever has happened to the job.
C2_StatusIsolation ==
    \A j \in JobIds, u \in Users :
        (owner0[j] # None /\ u # owner0[j]) => job_status(u, j) = NotFound

\* C3: a search run as one user never returns a job another user created,
\* through the search endpoint and through the chat retrieval path, for
\* every query.
C3_SearchIsolation ==
    \A u \in Users, q \in Queries :
        \A j \in semantic_search_videos(u, q) \cup smart_rag_search(u, q) :
            owner0[j] = u

\* C4: every stored job carries the owner its creator gave it, and no step
\* removes or changes the owner or the session_id of a job that stays stored.
C4_OwnerKept ==
    /\ [](\A j \in JobIds : Exists(j) => store[j].user_id = owner0[j])
    /\ [][\A j \in JobIds :
             (Exists(j) /\ store'[j] # NoJob)
             => /\ store'[j].user_id = store[j].user_id
                /\ store'[j].session_id = store[j].session_id]_vars

\* the worker ends the processing of the message in hand
EndsProcessing == worker.pc \in {"error", "done"} /\ worker'.pc \in {"resolve", "ack"}

\* C5: when a message is processed against a job that was already done, the
\* job ends done, with owner, session_id, video and created_at as they were
\* before, and with the result of a successful tool run.
C5_ReprocessKeepsDone ==
    [][(EndsProcessing /\ worker.job_item.status = "done")
       => LET new == store'[worker.job_id]
              old == worker.job_item
          IN /\ new.status = "done"
             /\ new.user_id = old.user_id /\ new.session_id = old.session_id
             /\ new.video = old.video /\ new.created_at = old.created_at
             /\ new.result \in {"analysis", "empty_analysis"}]_vars

\* the dispatch diagnostics of an item
Diagnostics(item) ==
    <<item.sqs_message_id, item.enqueued_at, item.enqueue_attempts, item.enqueue_last_error>>

\* C6: the write that ends the worker's processing of a message leaves the
\* job's dispatch diagnostics (message_id, enqueued_at, attempts, last_error)
\* as they were.
C6_DiagnosticsKept ==
    [][(EndsProcessing /\ Exists(worker.job_id))
       => Diagnostics(store'[worker.job_id]) = Diagnostics(store[worker.job_id])]_vars

\* C7: the worker deletes a message only when its processing has committed a
\* terminal status or has found the job missing.
C7_AckAfterCommit ==
    [][WorkerAck => BatchIds(worker) \subseteq worker.settled]_vars

\* the jobs a response names
Range(f) == {f[k] : k \in DOMAIN f}

\* C8: when the job-store writes succeed, POST /analyze answers with a job_id
\* for every video even when every queue send of a dispatch failed.
C8_AnalyzeAlwaysAnswers ==
    [][(api.op = "analyze" /\ api.pc = "diag" /\ api'.pc = "respond" /\ faults' = faults)
       => api'.code = 200 /\ api.job \in Range(api'.jobs)]_vars

C10_FailureIsError ==
    \A j \in JobIds :
        (Exists(j) /\ store[j].result = "error_json") => store[j].status # "done"

\* ---- C11

\* the poll loop of main never stops while the process lives, and a handler
\* the API has started runs to its end; what clients ask for, the passing of
\* time, failures and crashes are under no obligation
FairSpec ==
    /\ Spec
    /\ WF_vars(WorkerReceive) /\ WF_vars(WorkerResolve) /\ WF_vars(WorkerMarkRunning)
    /\ WF_vars(WorkerExec) /\ WF_vars(WorkerWriteError) /\ WF_vars(WorkerIndex)
    /\ WF_vars(WorkerWriteDone) /\ WF_vars(WorkerAck)
    /\ WF_vars(AnalyzePut) /\ WF_vars(SendAttempt) /\ WF_vars(DiagUpdate)
    /\ WF_vars(ApiReturn)

\* a dispatch message of job j is in the queue
Enqueued(j) == \E m \in queue : m.job_id = j

\* C11: a job with a dispatch message in the queue eventually reaches a
\* terminal status (or is deleted), whatever failures and crashes the worker
\* meets on the way.
C11_EventuallyTerminal ==
    \A j \in JobIds : Enqueued(j) ~> (Terminal(store[j].status) \/ ~Exists(j))

\* ---- C12

\* C12: RequeueStale re-dispatches every queued job that is old enough and
\* answers with the counts: it changes no job's status, and when it answers,
\* every stale job of its scan has been dispatched, requeued counts them, and
\* a dispatch whose sends failed has not ended the call (the job table works).
C12_RequeueStale ==
    [][/\ (api.op = "stale" /\ api.pc = "diag")
          => \A j \in JobIds : store'[j].status = store[j].status
       /\ (api.op = "stale" /\ api.pc = "diag" /\ api'.pc = "respond" /\ faults' = faults)
          => /\ api'.code = 200
             /\ api'.requeued = api.requeued + Len(api.todo)]_vars

\* ---- C13

\* the item POST /analyze leaves behind when every send of its dispatch
\* failed: stored queued, with the error recorded and no message in the queue
StuckItem(u, sid, tool) ==
    [EmptyItem EXCEPT !.status = "queued", !.created_at = 1, !.user_id = u,
                      !.user_email = Email(u), !.session_id = sid, !.video = tool,
                      !.s3 = TRUE, !.enqueue_last_error = TRUE, !.enqueue_attempts = 1]

\* a stuck job is in the table; the recovery endpoint and the worker run
StaleInit ==
    /\ \E u \in Users, sid \in Sessions, tool \in RequestTools :
          /\ store = [j \in JobIds |-> IF j = 1 THEN StuckItem(u, sid, tool) ELSE NoJob]
          /\ owner0 = [j \in JobIds |-> IF j = 1 THEN u ELSE None]
    /\ nextJob = 2
    /\ queue = {}
    /\ ndisp = 0
    /\ now = 1
    /\ api = IdleApi
    /\ worker = IdleWorker
    /\ faults = 0

StaleNext ==
    \/ \E u \in Users, max_age \in 0..MaxTicks : RequeueStaleJobs(u, max_age)
    \/ SendAttempt
    \/ DiagUpdate
    \/ ApiReturn
    \/ Tick
    \/ WorkerReceive
    \/ WorkerResolve
    \/ WorkerMarkRunning
    \/ WorkerExec
    \/ WorkerWriteError
    \/ WorkerIndex
    \/ WorkerWriteDone
    \/ WorkerAck
    \/ WorkerCrash

StaleSpec == StaleInit /\ [][StaleNext]_vars

\* what one whole processing of a dispatch message makes of an item, for a
\* tool run that meets failure f: nothing without s3 data, the error item
\* when the tool raises, else the done item
ProcessMessage(item, f) ==
    IF item = NoJob \/ ~item.s3 THEN item
    ELSE LET tool == ResolveTool(DefaultTool(VideoTool(item)), item)
         IN IF tool \notin tools_map \/ ToolRaises(tool, f)
            THEN ErrorItem(MarkRunning(item))
            ELSE DoneItem(JobItem(item), ToolResult(tool, f))

\* status, owner, video and result of an item
Core(item) == <<item.status, item.user_id, item.video, item.result>>

C14_OwnerGated ==
    [][\A u \in Users, j \in JobIds :
          ((RequeueSingleJob(u, j) \/ RestartJob(u, j)) /\ owner0[j] \notin {None, u})
          => /\ api'.pc = "respond" /\ api'.code >= 400
             /\ store' = store /\ queue' = queue]_vars

\* ---- C15

\* C15: a Requeue that answers 200 has sent a dispatch message and leaves the
\* job queued with its video and created_at as they were; a Restart that
\* answers 200 leaves the job queued, without a result, with its video and
\* created_at as they were.
C15_ResetToQueued ==
    [][/\ (api.op = "requeue" /\ api.pc = "diag" /\ api'.pc = "respond" /\ api'.code = 200)
          => /\ api.message_id # 0
             /\ store'[api.job].status = "queued"
             /\ store'[api.job].video = store[api.job].video
             /\ store'[api.job].created_at = store[api.job].created_at
       /\ \A u \in Users, j \in JobIds :
             (RestartJob(u, j) /\ api'.code = 200)
             => /\ store'[j].status = "queued"
                /\ store'[j].result = None
                /\ store'[j].video = store[j].video
                /\ store'[j].created_at = store[j].created_at]_vars

\* ---- C16

\* C16: a stored job carries a result only while its status is done or error.
C16_ResultOnlyTerminal ==
    \A j \in JobIds :
        (Exists(j) /\ store[j].result # None) => Terminal(store[j].status)

\* ---- C17

\* api.py list_jobs (GET /jobs) for caller u: every item of the scan
list_jobs(u) == {j \in JobIds : Exists(j)}

\* api.py get_my_jobs (GET /my-jobs) for caller u: the scan with
\* FilterExpression user_id = :uid
get_my_jobs(u) == {j \in JobIds : Exists(j) /\ store[j].user_id = u}

\* api.py get_job (GET /jobs/{job_id}) for caller u: the item with that id
\* (or, for a short id, the first one whose id starts with it); no item is 404
get_job(u, j) == IF Exists(j) THEN {j} ELSE {}

\* api.py get_job_results_formatted (GET /jobs/{job_id}/results) for caller
\* u: the same lookup
get_job_results_formatted(u, j) == IF Exists(j) THEN {j} ELSE {}

\* C17: whatever read a user calls (list jobs, my jobs, get job, get
\* formatted results), every job in the answer was created by that user.
C17_ReadIsolation ==
    \A u \in Users :
        \A j \in list_jobs(u) \cup get_my_jobs(u)
                 \cup UNION {get_job(u, k) \cup get_job_results_formatted(u, k) : k \in JobIds} :
            owner0[j] = u

\* ---- the conversational orchestrator (POST /ask, POST /chat)

\* the messages of this model, one word each: two that name what the
\* analysed file shows, one that names nothing in it, one small talk
Messages == {"bmw", "car", "logo", "hello"}

\* api.py call_bedrock_chatbot rag_triggers and cost_optimized_aws_vector.py
\* _is_simple_query simple_patterns, as far as a message of this model contains
\* one of their terms
rag_triggers == {"bmw", "car", "logo"}
simple_patterns == {"bmw"}
is_simple_query(query) == query \in simple_patterns

\* what the request meets outside the program: CostOptimizedAWSVectorDB can be
\* built or raises, the scans of the job table answer or raise, and Bedrock
\* invoke_model returns a text, returns an empty text, returns an empty
\* content list, runs into the timeout, or raises
GenerativeOutcomes == {"text", "empty_text", "no_content", "timeout", "raises"}
Envs == [vector : {"ok", "raises"}, table : {"ok", "raises"}, bedrock : GenerativeOutcomes]

\* what basic_rag_fallback scores in a result: the BMW text and the Car label
\* of a finished analyze_video_complete document (the only tool whose document
\* has text_detection / label_detection sections)
ResultWords(item) ==
    IF item.result = "analysis" /\ item.video = "analyze_video_complete"
    THEN {"bmw", "car"} ELSE {}

\* cost_optimized_aws_vector.py CostOptimizedChatBot.chat (its cache is empty:
\* smart_rag_search builds a new chatbot for every request): no result is the
\* "keine passenden Videos" text; a simple query is answered from a template;
\* any other query goes to _generate_bedrock_response, which returns the
\* model's text, or a fixed sentence when the call fails
chat(user_query, user_id, session_id, e) ==
    LET search_results ==
            {j \in semantic_search(user_query, user_id) :
                session_id # None => store[j].session_id = session_id}
    IN  IF search_results = {}
        THEN Answer("no_match", user_query, {}, {}, 0)
        ELSE IF is_simple_query(user_query)
        THEN Answer("templated", user_query, search_results, search_results, 0)
        ELSE Answer(IF e.bedrock \in {"text", "empty_text"} THEN "generative" ELSE "canned",
                    user_query, search_results, search_results, 1)

\* api.py basic_rag_fallback(query): scan(Limit=100) without any filter, then
\* every done item whose result scores above the threshold for the query
basic_rag_fallback(query, e) ==
    IF e.table = "raises"
    THEN Answer("canned", query, {}, {}, 0)
    ELSE LET relevant_results ==
                {j \in JobIds : /\ Exists(j)
                                /\ store[j].status = "done"
                                /\ store[j].result # None
                                /\ query \in ResultWords(store[j])}
         IN  IF relevant_results = {}
             THEN Answer("no_match", query, {}, {}, 0)
             ELSE Answer("templated", query, relevant_results, {}, 0)

\* api.py smart_rag_search, the whole answer: the chat response with the
\* debug block appended (which counts the caller's "BMW" test results), or,
\* when the vector database raises, the error line followed by
\* basic_rag_fallback(query)
smart_rag_search_text(query, user_id, session_id, e) ==
    IF e.vector = "ok"
    THEN LET chat_response == chat(query, user_id, session_id, e)
         IN  [chat_response EXCEPT !.jobs = @ \cup semantic_search("bmw", user_id)]
    ELSE basic_rag_fallback(query, e)

\* api.py session_status_message: None without user_id or session_id, when the
\* scan fails or finds nothing, or when nothing runs and something is
\* completed; else the narration of the session's jobs
session_status_message(user_id, session_id, e) ==
    IF user_id = None \/ session_id = None \/ e.table = "raises" THEN NoAnswer
    ELSE LET items == {j \in JobIds : /\ Exists(j)
                                      /\ store[j].user_id = user_id
                                      /\ store[j].session_id = session_id}
             running == {j \in items : store[j].status \in {"queued", "running", "processing", "pending"}}
             completed == {j \in items : store[j].status \in {"completed", "done"}}
         IN  IF items # {} /\ (running # {} \/ completed = {})
             THEN Answer("narrated", None, items, {}, 0)
             ELSE NoAnswer

\* api.py call_bedrock_chatbot: a message with a trigger term takes the
\* retrieval answer unless it says "no matches", then the session narration
\* if there is one; everything else builds video_context from the caller's
\* done items and calls Bedrock.  The text of the first content block is
\* returned as it is; an empty content list, the timeout and any exception are
\* answered with fixed texts (the timeout text of a BMW question quotes the
\* length of video_context).
call_bedrock_chatbot(message, user_id, session_id, e) ==
    LET rag_result == smart_rag_search_text(message, user_id, session_id, e)
        status_msg == session_status_message(user_id, session_id, e)
        completed_jobs ==
            IF e.table = "raises" THEN {}
            ELSE {j \in JobIds :
                    /\ Exists(j)
                    /\ store[j].result # None
                    /\ store[j].status = "done"
                    /\ user_id # None =>
                          /\ store[j].user_id = user_id
                          /\ session_id # None => store[j].session_id = session_id}
        generated ==
            CASE e.bedrock = "text" -> Answer("generative", message, completed_jobs, {}, 1)
              [] e.bedrock = "empty_text" ->
                    [Answer("generative", message, completed_jobs, {}, 1) EXCEPT !.empty = TRUE]
              [] e.bedrock = "timeout" /\ message = "bmw" ->
                    Answer("canned", message, completed_jobs, {}, 1)
              [] OTHER -> Answer("canned", message, {}, {}, 1)
    IN  IF message \in rag_triggers
        THEN IF rag_result.branch # "no_match" THEN rag_result
             ELSE IF status_msg # NoAnswer THEN [status_msg EXCEPT !.query = message]
             ELSE generated
        ELSE generated

\* api.py emergency_migrate_data, run by smart_rag_search once the vector
\* database is built: store_video_analysis for every done item of the table
\* that has a result and an s3_key
emergency_migrate_data(t) ==
    [j \in JobIds |->
        IF t[j] # NoJob /\ t[j].status = "done" /\ t[j].result # None /\ t[j].s3
        THEN store_video_analysis(t[j]) ELSE t[j]]

\* POST /ask (ask_agent) and POST /chat (chat_with_videos) for caller u: the
\* answer of call_bedrock_chatbot(message, user_id, session_id), read after
\* the migration its retrieval step has run
Ask(u, sid, message, e) ==
    /\ api.pc = "idle"
    /\ store' = IF message \in rag_triggers /\ e.vector = "ok"
                THEN emergency_migrate_data(store) ELSE store
    /\ api' = [IdleApi EXCEPT !.pc = "respond", !.op = "ask", !.user = u,
                              !.session = sid, !.code = 200,
                              !.answer = call_bedrock_chatbot(message, u, sid, e)']
    /\ UNCHANGED <<owner0, nextJob, queue, ndisp, now, worker, faults>>

\* the items a job of user u, session sid and tool tool goes through: queued
\* by POST /analyze, running, failed, and done with each document a run can
\* give, before and after it is indexed for the search
AskItems(u, sid, tool) ==
    LET queued == [save_job_entry("queued", tool, u, Email(u), sid) EXCEPT !.created_at = 1]
        done == {DoneItem(JobItem(queued), ToolResult(tool, f)) :
                    f \in {g \in Failures : ~ToolRaises(tool, g)}}
    IN  {queued, MarkRunning(queued), ErrorItem(MarkRunning(queued))}
        \cup done \cup {store_video_analysis(i) : i \in done}

\* the table holds no job or one job at some point of its life
AskInit ==
    /\ now = 1
    /\ \/ /\ store = [j \in JobIds |-> NoJob]
          /\ owner0 = [j \in JobIds |-> None]
          /\ nextJob = 1
       \/ \E u \in Users, sid \in Sessions, tool \in tools_map :
             \E item \in AskItems(u, sid, tool) :
                /\ store = [j \in JobIds |-> IF j = 1 THEN item ELSE NoJob]
                /\ owner0 = [j \in JobIds |-> IF j = 1 THEN u ELSE None]
                /\ nextJob = 2
    /\ queue = {}
    /\ ndisp = 0
    /\ api = IdleApi
    /\ worker = IdleWorker
    /\ faults = 0

AskNext ==
    \/ \E u \in Users, sid \in Sessions \cup {None}, message \in Messages, e \in Envs :
          Ask(u, sid, message, e)
    \/ ApiReturn

AskSpec == AskInit /\ [][AskNext]_vars

\* an answer has been produced and not yet sent
Answered == api.op = "ask" /\ api.pc = "respond"

\* ---- C18

\* C18: the answer a user gets from the orchestrator is built only from jobs
\* that user created, whichever branch produced it.
C18_AskIsolation ==
    Answered => \A j \in api.answer.jobs : owner0[j] = api.user

\* ---- C19

\* C19: every answer of the orchestrator comes from exactly one of the
\* templated, narrated, generative and canned branches and is never the empty
\* string, whatever the retrieval, the job table and the generative API do.
C19_NeverEmpty ==
    Answered => /\ api.answer.branch \in {"templated", "narrated", "generative", "canned"}
                /\ ~api.answer.empty

\* ---- C20

\* C20: when the message holds a trigger term and the ranked retrieval
\* returns at least one result, the answer is the templated one and no call of
\* the generative API was made for the request.
C20_HitMeansTemplate ==
    (Answered /\ api.answer.query \in rag_triggers /\ api.answer.matches # {})
        => (api.answer.branch = "templated" /\ api.answer.llm = 0)

\* ---- C21

\* the jobs of user u in session sid that are queued or running
NonTerminalJobs(u, sid) ==
    {j \in JobIds : /\ Exists(j)
                    /\ store[j].user_id = u
                    /\ store[j].session_id = sid
                    /\ store[j].status \in {"queued", "running"}}

\* C21: when the retrieval of a trigger message finds nothing (a session is
\* given and the job table answers), the orchestrator narrates the progress
\* exactly when the caller has a queued or running job in that session, and
\* goes on to the generative fallback otherwise.
C21_NarrateIffRunning ==
    [][\A u \in Users, sid \in Sessions, message \in rag_triggers, e \in Envs :
          (/\ Ask(u, sid, message, e)
           /\ e.table = "ok"
           /\ smart_rag_search_text(message, u, sid, e)'.branch = "no_match")
          => /\ api'.answer.branch = "narrated" <=> NonTerminalJobs(u, sid) # {}
             /\ api'.answer.branch # "narrated" => api'.answer.llm = 1]_vars

\* ---- the ranked search (cost_optimized_aws_vector.py semantic_search)

\* number of items in the table the ranked search scans
MaxItems == 2
SearchIds == 1..MaxItems

\* the queries of the ranked search, one word each
SearchQueries == {"car", "bmw"}

\* query.lower().split(): the words of the queries of this model (every word
\* of the model is longer than two letters)
query_words(query) ==
    CASE query = "" -> <<>>
      [] query = "welche autos" -> <<"welche", "autos">>
      [] query = "welche blauen roten autos" -> <<"welche", "blauen", "roten", "autos">>
      [] query = "welche videos" -> <<"welche", "videos">>
      [] OTHER -> <<query>>

\* the stopwords and the synonym lists the words of this model have
stopwords == {"welche", "videos"}

synonyms(word) ==
    CASE word = "car" -> <<"car", "vehicle", "transportation">>
      [] word = "autos" -> <<"car", "vehicle", "transportation", "automobile">>
      [] word = "blauen" -> <<"blue">>
      [] word = "roten" -> <<"red">>
      [] word = "text" -> <<"text", "writing", "license plate">>
      [] OTHER -> <<>>

\* every word that is no stopword, followed by its synonyms
RECURSIVE ExpandWords(_)
ExpandWords(words) ==
    IF words = <<>> THEN <<>>
    ELSE (IF Head(words) \in stopwords THEN <<>> ELSE <<Head(words)>> \o synonyms(Head(words)))
         \o ExpandWords(Tail(words))

\* semantic_search query_keywords: every word longer than two letters that is
\* no stopword, followed by its synonyms (the list of "car" starts with "car");
\* when that leaves nothing, every word longer than two letters
query_keywords(query) ==
    IF ExpandWords(query_words(query)) = <<>> THEN query_words(query)
    ELSE ExpandWords(query_words(query))

\* Python's "a in b" for the words of this model
Substr(a, b) == a = b \/ (a = "car" /\ b = "cars")

\* sum of f[i] over a sequence of numbers
RECURSIVE SumSeq(_)
SumSeq(f) == IF f = <<>> THEN 0 ELSE Head(f) + SumSeq(Tail(f))

\* the weight a semantic tag adds for each keyword it matches, in half points
TagWeight == 4

\* a score that divides the tag points by the number of tags
calculate_match_score_averaged(item, keywords) ==
    LET InContent(k) == \E w \in item.searchable_content : Substr(k, w)
        content == [i \in DOMAIN keywords |-> IF InContent(keywords[i]) THEN 2 ELSE 0]
        tagged(t) == [i \in DOMAIN keywords |->
                        IF Substr(keywords[i], t) \/ Substr(t, keywords[i]) THEN TagWeight ELSE 0]
        tags == [n \in DOMAIN item.semantic_tags |-> SumSeq(tagged(item.semantic_tags[n]))]
        texted(t) == [i \in DOMAIN keywords |-> IF Substr(keywords[i], t) THEN 3 ELSE 0]
        texts == [n \in DOMAIN item.text_content |-> SumSeq(texted(item.text_content[n]))]
        exact == [i \in DOMAIN keywords |->
                    IF keywords[i] \in item.searchable_content THEN 1 ELSE 0]
    IN  SumSeq(content)
        + (IF item.semantic_tags = <<>> THEN 0 ELSE SumSeq(tags) \div Len(item.semantic_tags))
        + SumSeq(texts) + SumSeq(exact)

\* _calculate_match_score in half points: 1.0 for every keyword found in
\* searchable_content, 2.0 for every (tag, keyword) pair where one contains
\* the other, 1.5 for every (text, keyword) pair where the text holds the
\* keyword, 0.5 for every keyword that is a whole word of searchable_content
calculate_match_score(item, keywords) ==
    LET InContent(k) == \E w \in item.searchable_content : Substr(k, w)
        content == [i \in DOMAIN keywords |-> IF InContent(keywords[i]) THEN 2 ELSE 0]
        tagged(t) == [i \in DOMAIN keywords |->
                        IF Substr(keywords[i], t) \/ Substr(t, keywords[i]) THEN TagWeight ELSE 0]
        tags == [n \in DOMAIN item.semantic_tags |-> SumSeq(tagged(item.semantic_tags[n]))]
        texted(t) == [i \in DOMAIN keywords |-> IF Substr(keywords[i], t) THEN 3 ELSE 0]
        texts == [n \in DOMAIN item.text_content |-> SumSeq(texted(item.text_content[n]))]
        exact == [i \in DOMAIN keywords |->
                    IF keywords[i] \in item.searchable_content THEN 1 ELSE 0]
    IN  SumSeq(content) + SumSeq(tags) + SumSeq(texts) + SumSeq(exact)

\* the scan of semantic_search over table t: the items whose
\* searchable_content contains one of the first five keywords and, when given,
\* whose user_id and session_id are the caller's, in the order of their keys
ScanFilter(t, keywords, user_id, session_id) ==
    LET kw5 == {keywords[i] : i \in {n \in DOMAIN keywords : n <= 5}}
    IN  {j \in DOMAIN t :
            /\ \E k \in kw5, w \in t[j].searchable_content : Substr(k, w)
            /\ user_id # None => t[j].user_id = user_id
            /\ session_id # None => t[j].session_id = session_id}

\* the intent flags of a query: one of the text words, or one of the
\* black-frame words, occurs in it
intent_text(query) == \E n \in DOMAIN query_words(query) : query_words(query)[n] = "text"

intent_blackframes(query) ==
    \E n \in DOMAIN query_words(query) : query_words(query)[n] = "blackframes"

\* the scan semantic_search runs: by has_text or has_blackframes when the
\* query has that intent and no keyword is left, else by the keywords
Scan(t, query, keywords, user_id, session_id) ==
    LET InScope(j) == /\ user_id # None => t[j].user_id = user_id
                      /\ session_id # None => t[j].session_id = session_id
    IN  IF intent_text(query) /\ keywords = <<>>
        THEN {j \in DOMAIN t : t[j].has_text /\ InScope(j)}
        ELSE IF intent_blackframes(query) /\ keywords = <<>>
        THEN {j \in DOMAIN t : t[j].has_blackframes /\ InScope(j)}
        ELSE ScanFilter(t, keywords, user_id, session_id)

\* list.sort(key=score, reverse=True) over the scanned items with a positive
\* score: the sort is stable, so items of equal score stay in scan order
RECURSIVE SortByScore(_, _, _)
SortByScore(t, S, keywords) ==
    IF S = {} THEN <<>>
    ELSE LET first == CHOOSE j \in S : \A k \in S :
                        \/ calculate_match_score(t[j], keywords) > calculate_match_score(t[k], keywords)
                        \/ /\ calculate_match_score(t[j], keywords) = calculate_match_score(t[k], keywords)
                           /\ j <= k
         IN  <<first>> \o SortByScore(t, S \ {first}, keywords)

\* a search whose order depends on the clock: on even ticks the best
\* results are cut from the other end of the ranking
semantic_search_clocked(t, query, limit, user_id, session_id) ==
    LET keywords == query_keywords(query)
        scored == {j \in Scan(t, query, keywords, user_id, session_id) :
                     calculate_match_score(t[j], keywords) > 0}
        ranked == SortByScore(t, scored, keywords)
        n == IF limit < Len(ranked) THEN limit ELSE Len(ranked)
    IN  IF now % 2 = 0 THEN SubSeq(ranked, Len(ranked) - n + 1, Len(ranked))
        ELSE SubSeq(ranked, 1, n)

\* semantic_search(query, limit, user_id, session_id) over table t: the job
\* ids of scored_results[:limit]; no keyword at all gives nothing
semantic_search_ranked(t, query, limit, user_id, session_id) ==
    LET keywords == query_keywords(query)
        scored == {j \in Scan(t, query, keywords, user_id, session_id) :
                     calculate_match_score(t[j], keywords) > 0}
        ranked == SortByScore(t, scored, keywords)
    IN  SubSeq(ranked, 1, IF limit < Len(ranked) THEN limit ELSE Len(ranked))

\* what store_video_analysis writes for a finished job: the words of
\* searchable_content (file name, labels, text words), the semantic_tags and
\* the text_content.  The profiles: not indexed; a file "cars.mp4" without
\* labels; the same with the label Car; a file "clip.mp4" with the label Car
\* and the text BMW; the same with the text only; a file "clip.mp4" with the
\* labels Car and a longer label that contains it (written "cars").  has_text
\* and has_blackframes say which analyses the result holds: the file without
\* labels went through the black-frame detection, the file with label and
\* text through the complete analysis
SearchFields ==
    {[searchable_content |-> {}, semantic_tags |-> <<>>, text_content |-> <<>>,
      has_text |-> FALSE, has_blackframes |-> FALSE],
     [searchable_content |-> {"cars"}, semantic_tags |-> <<>>, text_content |-> <<>>,
      has_text |-> FALSE, has_blackframes |-> TRUE],
     [searchable_content |-> {"cars", "car"}, semantic_tags |-> <<"car">>, text_content |-> <<>>,
      has_text |-> FALSE, has_blackframes |-> FALSE],
     [searchable_content |-> {"clip", "car", "bmw"}, semantic_tags |-> <<"car">>,
      text_content |-> <<"bmw">>, has_text |-> TRUE, has_blackframes |-> TRUE],
     [searchable_content |-> {"clip", "bmw"}, semantic_tags |-> <<>>, text_content |-> <<"bmw">>,
      has_text |-> TRUE, has_blackframes |-> FALSE],
     [searchable_content |-> {"clip", "car", "cars"}, semantic_tags |-> <<"car", "cars">>,
      text_content |-> <<>>, has_text |-> FALSE, has_blackframes |-> FALSE]}

\* a job of the table as the search reads it: owner, session, search fields
\* and updated_at
SearchItems ==
    {[user_id |-> u, session_id |-> sid,
      searchable_content |-> f.searchable_content, semantic_tags |-> f.semantic_tags,
      text_content |-> f.text_content, has_text |-> f.has_text,
      has_blackframes |-> f.has_blackframes, updated_at |-> at] :
        u \in Users, sid \in Sessions, f \in SearchFields, at \in 1..(MaxTicks + 1)}

\* the vector database is asked: semantic_search(query, limit, user_id,
\* session_id); the response carries the ranked job ids
SemanticSearch(query, limit, user_id, session_id) ==
    /\ api.pc = "idle"
    /\ api' = [IdleApi EXCEPT
                 !.pc = "respond", !.op = "search", !.user = user_id,
                 !.session = session_id, !.code = 200,
                 !.jobs = semantic_search_ranked(store, query, limit, user_id, session_id),
                 !.search = [query |-> query, limit |-> limit, snapshot |-> store,
                              at |-> now]]
    /\ UNCHANGED <<store, owner0, nextJob, queue, ndisp, now, worker, faults>>

\* worker.py: the done put_item of job j as the search sees it: updated_at is
\* the current time and the search fields are gone; the index update that
\* follows a later migration puts the search fields back
SearchPutDone(j) ==
    /\ store[j].updated_at < now
    /\ store' = [store EXCEPT ![j] = [@ EXCEPT !.updated_at = now,
                                               !.searchable_content = {},
                                               !.semantic_tags = <<>>,
                                               !.text_content = <<>>,
                                               !.has_text = FALSE,
                                               !.has_blackframes = FALSE]]
    /\ UNCHANGED <<owner0, nextJob, queue, ndisp, now, api, worker, faults>>

\* every job of the table is finished; searches, later done writes and the
\* passing of time follow
SearchInit ==
    /\ store \in [SearchIds -> SearchItems]
    /\ owner0 = [j \in SearchIds |-> store[j].user_id]
    /\ nextJob = MaxItems + 1
    /\ queue = {}
    /\ ndisp = 0
    /\ now = 1
    /\ api = IdleApi
    /\ worker = IdleWorker
    /\ faults = 0

SearchNext ==
    \/ \E query \in SearchQueries, limit \in 1..MaxItems,
          user_id \in Users \cup {None}, session_id \in Sessions \cup {None} :
          SemanticSearch(query, limit, user_id, session_id)
    \/ \E j \in SearchIds : SearchPutDone(j)
    \/ ApiReturn
    \/ Tick

SearchSpec == SearchInit /\ [][SearchNext]_vars

\* a search has answered and the answer is not yet sent
Searched == api.op = "search" /\ api.pc = "respond"

\* the score of the n-th result of the answer
ScoreAt(n) == calculate_match_score(api.search.snapshot[api.jobs[n]],
                                    query_keywords(api.search.query))

\* ---- C22

\* C22: a search returns at most limit results, each with a positive score,
\* in descending order of score, and results of equal score in descending
\* order of updated_at.
C22_RankedAndTieBroken ==
    Searched =>
        /\ Len(api.jobs) <= api.search.limit
        /\ \A n \in DOMAIN api.jobs : ScoreAt(n) > 0
        /\ \A n, m \in DOMAIN api.jobs :
              n < m => \/ ScoreAt(n) > ScoreAt(m)
                       \/ /\ ScoreAt(n) = ScoreAt(m)
                          /\ api.search.snapshot[api.jobs[n]].updated_at
                                >= api.search.snapshot[api.jobs[m]].updated_at

\* ---- C23

KeywordLists == {query_keywords(q) : q \in SearchQueries} \cup {<<"car", "bmw">>, <<"bmw", "vehicle">>}
Tags == {"car", "cars", "bmw", "vehicle"}

\* tag and some keyword of the list contain one another
TagMatches(tag, keywords) ==
    \E i \in DOMAIN keywords : Substr(keywords[i], tag) \/ Substr(tag, keywords[i])

\* item with one more semantic tag
WithTag(item, tag) == [item EXCEPT !.semantic_tags = Append(@, tag)]

\* C24: for every keyword list, a job with one more tag that matches a
\* keyword scores at least as much as the same job without that tag.
C24_TagMonotone ==
    \A j \in SearchIds, keywords \in KeywordLists, tag \in Tags :
        TagMatches(tag, keywords)
            => calculate_match_score(WithTag(store[j], tag), keywords)
                  >= calculate_match_score(store[j], keywords)

\* a job that already has a tag and a positive score gains from a second
\* matching tag
C24_Witness ==
    \E j \in SearchIds, keywords \in KeywordLists, tag \in Tags :
        /\ store[j].semantic_tags # <<>>
        /\ calculate_match_score(store[j], keywords) > 0
        /\ TagMatches(tag, keywords)
        /\ calculate_match_score(WithTag(store[j], tag), keywords)
              > calculate_match_score(store[j], keywords)

\* ---- the worker over one batch (worker.py _process_messages and main)

\* a message whose body is no JSON object (it is not one of the API's)
BadMessage(id) ==
    [id |-> id, job_id |-> 0, tool |-> None, visible |-> TRUE, ok |-> FALSE]

\* the item POST /analyze stores for a video whose bucket is the empty string
\* (VideoJob takes any str): save_job_entry writes s3_bucket = "", which the
\* worker reads as missing, and start_worker_container sends the message all
\* the same
NoBucketItem(u, sid, tool) ==
    [save_job_entry("queued", tool, u, Email(u), sid) EXCEPT !.s3 = FALSE]

\* an item once its first dispatch has been sent and recorded
Dispatched(item) == DiagItem(item, 1)

\* two messages wait in the queue, each one a dispatch of job 1 or a body
\* that cannot be read; job 1 is stored as POST /analyze left it, with or
\* without a bucket, or is not in the table
BatchInit ==
    /\ now = 1
    /\ \E u \in Users, sid \in Sessions, tool \in RequestTools :
          /\ store \in {[j \in JobIds |-> IF j = 1 THEN item ELSE NoJob] :
                          item \in {Dispatched(save_job_entry("queued", tool, u, Email(u), sid)),
                                    Dispatched(NoBucketItem(u, sid, tool)), NoJob}}
          /\ owner0 = [j \in JobIds |-> IF j = 1 THEN u ELSE None]
          /\ queue \in {{m1, m2} : m1 \in {Message(1, 1, tool), BadMessage(1)},
                                   m2 \in {Message(2, 1, tool), BadMessage(2)}}
    /\ nextJob = 2
    /\ ndisp = MaxDispatch
    /\ api = IdleApi
    /\ worker = IdleWorker
    /\ faults = 0

BatchNext ==
    \/ WorkerReceive
    \/ WorkerResolve
    \/ WorkerMarkRunning
    \/ WorkerExec
    \/ WorkerWriteError
    \/ WorkerIndex
    \/ WorkerWriteDone
    \/ WorkerAck
    \/ WorkerCrash

\* the poll loop and the loop over the batch go on while the process lives
BatchSpec ==
    /\ BatchInit /\ [][BatchNext]_vars
    /\ WF_vars(WorkerReceive) /\ WF_vars(WorkerResolve) /\ WF_vars(WorkerMarkRunning)
    /\ WF_vars(WorkerExec) /\ WF_vars(WorkerWriteError) /\ WF_vars(WorkerIndex)
    /\ WF_vars(WorkerWriteDone) /\ WF_vars(WorkerAck)

\* the worker process has not been killed in this step
NoCrash == ~(worker' = IdleWorker /\ faults' # faults)

\* message id is in the queue
InQueue(id) == \E m \in queue : m.id = id

\* ---- C25

\* C25: whatever fails while a message is processed, the worker stays in its
\* loops: a step from message i leads to a later step of message i, to
\* message i + 1, or after the last message to the deletion of the batch, and
\* every message of the queue is deleted in the end.
C25_LoopGoesOn ==
    /\ [][(worker.pc \notin {"poll", "ack"} /\ worker' # worker /\ NoCrash)
            => /\ worker'.batch = worker.batch
               /\ \/ worker'.i = worker.i /\ worker'.pc \in {"mark", "exec", "error", "index", "done"}
                  \/ worker'.i = worker.i + 1 /\ worker'.pc = "resolve"
                  \/ worker.i = Len(worker.batch) /\ worker'.i = worker.i /\ worker'.pc = "ack"]_vars
    /\ \A id \in 1..MaxDispatch : InQueue(id) ~> ~InQueue(id)

\* a batch has been deleted after a failure was met on the way, and the job
\* has reached a terminal status
C25_Witness ==
    /\ queue = {}
    /\ worker.pc = "poll"
    /\ faults = MaxFaults
    /\ \E j \in JobIds : Terminal(store[j].status)

\* ---- C26

\* C26: when the worker has written done for a job it analysed and indexed,
\* the stored job has status done and still carries the search fields.
C26_DoneKeepsSearchFields ==
    [][(worker.pc = "done" /\ worker'.pc # "done" /\ store' # store)
          => /\ store'[worker.job_id].status = "done"
             /\ store[worker.job_id].indexed => store'[worker.job_id].indexed]_vars

\* ---- C27

\* item is stored queued without bucket or key and nothing on it tells of a
\* failure
DroppedSilently(item) ==
    /\ item # NoJob
    /\ item.status = "queued"
    /\ ~item.s3
    /\ ~item.enqueue_last_error
    /\ item.result = None

\* C27: when the worker deletes the messages of a batch, no job named by one
\* of them is left queued without bucket or key and without any diagnostic.
C27_NeverDroppedSilently ==
    [][(worker.pc = "ack" /\ worker'.pc = "poll" /\ queue' # queue)
          => \A k \in DOMAIN worker.batch :
                worker.batch[k].ok => ~DroppedSilently(store'[worker.batch[k].job_id])]_vars

\* ---- C28

\* the worker is about to read the job of a message and the job is not stored
AtMissingJob ==
    /\ worker.pc = "resolve"
    /\ worker.batch[worker.i].ok
    /\ ~Exists(worker.batch[worker.i].job_id)

\* C28: a message whose job is not in the table is dropped: the step that
\* handles it changes no record and starts no tool run, and the deletion that
\* ends the batch removes the message from the queue.
C28_MissingJobDropped ==
    /\ [][(AtMissingJob /\ worker' # worker /\ NoCrash)
            => /\ store' = store
               /\ worker'.pc \in {"resolve", "ack"}
               /\ worker'.batch = worker.batch]_vars
    /\ [][(worker.pc = "ack" /\ worker' # worker /\ NoCrash)
            => \A k \in DOMAIN worker.batch :
                  \A m \in queue' : m.id # worker.batch[k].id]_vars

\* the batch is about to be deleted and holds a message whose job was found
\* missing
C28_Witness ==
    /\ worker.pc = "ack"
    /\ \E k \in DOMAIN worker.batch :
          /\ worker.batch[k].ok
          /\ ~Exists(worker.batch[k].job_id)
          /\ worker.batch[k].id \in worker.settled

\* ---- C29

\* the worker has read job j and has not yet finished with its message
Resolved(j) ==
    /\ worker.job_id = j
    /\ worker.pc \notin {"poll", "resolve", "ack"}

\* C29: once a job has been deleted, no step of a worker that had read the
\* job before the delete stores a record under its job_id again.
C29_DeletedStaysAbsent ==
    [][\A j \in JobIds :
          (owner0[j] # None /\ ~Exists(j) /\ Resolved(j)) => store'[j] = NoJob]_vars

\* ---- C30

\* the worker is handling a message whose body gave no job_id
AtBadMessage ==
    /\ worker.pc \in {"resolve", "error"}
    /\ ~worker.batch[worker.i].ok

\* C30: handling a message that fails before its job_id is read changes the
\* status and the result of no job.
C30_BadMessageTouchesNoJob ==
    [][AtBadMessage
         => \A j \in JobIds : /\ store'[j].status = store[j].status
                              /\ store'[j].result = store[j].result]_vars

\* ---- the session listing (GET /session/{session_id}/jobs)

\* the orders a scan of the table can return its items in
ScanOrders == {<<1, 2>>, <<2, 1>>}

\* the items of the scan with FilterExpression session_id = :sid, in the
\* order the scan returns them
SessionScan(t, session_id, order) ==
    SelectSeq(order, LAMBDA j : t[j] # NoJob /\ t[j].session_id = session_id)

\* get_session_jobs: the caller must own the first item of the scan; the
\* response then lists every item
get_session_jobs(t, user_id, session_id, order) ==
    LET items == SessionScan(t, session_id, order)
    IN  IF items # <<>> /\ t[items[1]].user_id # user_id
        THEN [code |-> 403, jobs |-> <<>>]
        ELSE [code |-> 200, jobs |-> items]

\* GET /session/{session_id}/jobs for caller u
GetSessionJobs(u, sid, order) ==
    /\ api.pc = "idle"
    /\ LET r == get_session_jobs(store, u, sid, order)
       IN  api' = [IdleApi EXCEPT !.pc = "respond", !.op = "session_jobs", !.user = u,
                                  !.session = sid, !.code = r.code, !.jobs = r.jobs]
    /\ UNCHANGED <<store, owner0, nextJob, queue, ndisp, now, worker, faults>>

\* each of the two job ids is free or holds a job some user created by POST
\* /analyze with the session id the request carried, at some point of its life
SessionInit ==
    /\ now = 1
    /\ store \in [SearchIds -> {NoJob} \cup UNION {AskItems(u, sid, "detect_blackframes") :
                                                    u \in Users, sid \in Sessions}]
    /\ owner0 = [j \in SearchIds |-> IF store[j] = NoJob THEN None ELSE store[j].user_id]
    /\ nextJob = MaxItems + 1
    /\ queue = {}
    /\ ndisp = 0
    /\ api = IdleApi
    /\ worker = IdleWorker
    /\ faults = 0

SessionNext ==
    \/ \E u \in Users, sid \in Sessions, order \in ScanOrders : GetSessionJobs(u, sid, order)
    \/ ApiReturn

SessionSpec == SessionInit /\ [][SessionNext]_vars

\* ---- C31

\* C31: every job in the answer of a session listing was created by the
\* caller.
C31_SessionListIsolation ==
    (api.op = "session_jobs" /\ api.pc = "respond")
        => \A k \in DOMAIN api.jobs : owner0[api.jobs[k]] = api.user

\* ---- the response cache of a chatbot instance (CostOptimizedChatBot.chat)

MaxCached == 1   \* entries the cache of one instance grows to

\* cache_key: the user id (or 'anonymous') and the lower-cased query
cache_key(user_query, user_id) ==
    <<IF user_id = None THEN "anonymous" ELSE user_id, user_query>>

\* the entry of a key in the cache c, as a set of at most one entry
Cached(c, key) == {r \in c : r.key = key}

\* one answer of chat: the matched videos, and as ghosts the session and the
\* table it was computed for
ChatResponse(key, jobs, session_id, t) ==
    [key |-> key, jobs |-> jobs, session |-> session_id, snapshot |-> t]

\* chat(user_query, context_limit, user_id, session_id) on an instance whose
\* cache is c: the cached response of the key if there is one, else the
\* response built from the search
chat_response(c, t, user_query, context_limit, user_id, session_id) ==
    LET key == cache_key(user_query, user_id)
    IN  IF Cached(c, key) # {}
        THEN CHOOSE r \in Cached(c, key) : TRUE
        ELSE ChatResponse(key, semantic_search_ranked(t, user_query, context_limit,
                                                     user_id, session_id),
                          session_id, t)

\* the cache after that call: a response with matched videos is stored under
\* its key
chat_cache(c, t, user_query, context_limit, user_id, session_id) ==
    LET r == chat_response(c, t, user_query, context_limit, user_id, session_id)
    IN  IF Cached(c, r.key) = {} /\ r.jobs # <<>> THEN c \cup {r} ELSE c

\* a handler calls chat on the chatbot instance it holds
ChatOn(user_query, context_limit, user_id, session_id) ==
    /\ api.pc \in {"idle", "chat"}
    /\ \/ Cached(api.response_cache, cache_key(user_query, user_id)) # {}
       \/ Cardinality(api.response_cache) < MaxCached
    /\ LET r == chat_response(api.response_cache, store, user_query, context_limit,
                              user_id, session_id)
       IN  api' = [IdleApi EXCEPT
                     !.pc = "chat", !.op = "chat", !.user = user_id, !.session = session_id,
                     !.code = 200, !.jobs = r.jobs,
                     !.search = [query |-> user_query, limit |-> context_limit,
                                 snapshot |-> r.snapshot, at |-> now],
                     !.response_cache = chat_cache(api.response_cache, store, user_query,
                                                   context_limit, user_id, session_id)]
    /\ UNCHANGED <<store, owner0, nextJob, queue, ndisp, now, worker, faults>>

\* the handler ends and its chatbot instance goes with it
ChatEnd ==
    /\ api.pc = "chat"
    /\ api' = IdleApi
    /\ UNCHANGED <<store, owner0, nextJob, queue, ndisp, now, worker, faults>>

\* the search fields of the item are set
HasSearchFields(item) == item.searchable_content # {}

\* store_video_analysis for job j, which had no search fields: the fields f
\* are written
SearchIndex(j, f) ==
    /\ ~HasSearchFields(store[j])
    /\ HasSearchFields(f)
    /\ store' = [store EXCEPT ![j] = [@ EXCEPT !.searchable_content = f.searchable_content,
                                               !.semantic_tags = f.semantic_tags,
                                               !.text_content = f.text_content,
                                               !.has_text = f.has_text,
                                               !.has_blackframes = f.has_blackframes]]
    /\ UNCHANGED <<owner0, nextJob, queue, ndisp, now, api, worker, faults>>

\* finished jobs, indexed or not, all written at time 1
CacheInit ==
    /\ SearchInit
    /\ \A j \in SearchIds : store[j].updated_at = 1

CacheNext ==
    \/ \E user_query \in SearchQueries, context_limit \in 1..MaxItems,
          user_id \in Users \cup {None}, session_id \in Sessions \cup {None} :
          ChatOn(user_query, context_limit, user_id, session_id)
    \/ ChatEnd
    \/ \E j \in SearchIds, f \in SearchFields : SearchIndex(j, f)

CacheSpec == CacheInit /\ [][CacheNext]_vars

\* ---- C32

\* C32: an answer of chat that comes from the cache was computed for the same
\* session, and no job of the caller has been indexed since it was computed.
C32_CacheFresh ==
    [][\A user_query \in SearchQueries, context_limit \in 1..MaxItems,
          user_id \in Users, session_id \in Sessions \cup {None} :
          (/\ ChatOn(user_query, context_limit, user_id, session_id)
           /\ Cached(api.response_cache, cache_key(user_query, user_id)) # {})
          => \A r \in Cached(api.response_cache, cache_key(user_query, user_id)) :
                /\ r.session = session_id
                /\ \A j \in SearchIds :
                      (store[j].user_id = user_id /\ HasSearchFields(store[j]))
                          => HasSearchFields(r.snapshot[j])]_vars

\* ---- C33

\* C33: while the send loop of a dispatch runs, it is at attempt 1 or 2 and
\* has sent nothing yet; a pass either sends one message and ends the loop or
\* moves to the next attempt; the diagnostics update comes only after the
\* loop, is made once, and is the only step that counts an enqueue attempt
\* on the job, by one.
C33_BoundedSend ==
    /\ [](api.pc = "send" => /\ api.attempt \in 1..SendAttempts
                             /\ api.message_id = 0
                             /\ ~InQueue(ndisp))
    /\ [][SendAttempt
            => /\ queue' # queue
                  => /\ api'.pc = "diag"
                     /\ Cardinality(queue') = Cardinality(queue) + 1
               /\ api'.pc = "send" => api'.attempt = api.attempt + 1]_vars
    /\ [][(api'.pc = "diag" /\ api' # api) => api.pc = "send"]_vars
    /\ [][\A j \in JobIds :
             store'[j].enqueue_attempts > store[j].enqueue_attempts
                => /\ api.pc = "diag" /\ api.job = j
                   /\ store'[j].enqueue_attempts = store[j].enqueue_attempts + 1]_vars

\* the second attempt of a dispatch has sent the message and the diagnostics
\* update is next
C33_Witness ==
    /\ api.pc = "diag"
    /\ api.attempt = SendAttempts
    /\ api.message_id # 0
    /\ InQueue(api.message_id)

\* ---- the tool of a job on every dispatch path

\* what the video attribute of a stored job says about its tool: a tool, the
\* empty string (VideoJob.tool takes any str), or nothing
StoredTools == {"detect_blackframes", "", NoToolKey}

\* a job is in the table: one whose dispatch failed, with any stored tool, or
\* one POST /analyze has just dispatched with the tool of the request; the
\* requeue and restart endpoints and the worker run
ToolInit ==
    /\ now = 1
    /\ \E u \in Users, sid \in Sessions :
          /\ owner0 = [j \in JobIds |-> IF j = 1 THEN u ELSE None]
          /\ \/ \E tool \in StoredTools :
                   /\ store = [j \in JobIds |-> IF j = 1 THEN StuckItem(u, sid, tool) ELSE NoJob]
                   /\ queue = {}
                   /\ ndisp = 0
             \/ \E tool \in StoredTools \ {NoToolKey} :
                   /\ store = [j \in JobIds |->
                                 IF j = 1
                                 THEN Dispatched(save_job_entry("queued", tool, u, Email(u), sid))
                                 ELSE NoJob]
                   /\ queue = {Message(1, 1, tool)}
                   /\ ndisp = 1
    /\ nextJob = 2
    /\ api = IdleApi
    /\ worker = IdleWorker
    /\ faults = 0

ToolNext ==
    \/ \E u \in Users, j \in JobIds : RequeueSingleJob(u, j)
    \/ \E u \in Users, max_age \in 0..MaxTicks : RequeueStaleJobs(u, max_age)
    \/ \E u \in Users, j \in JobIds : RestartJob(u, j)
    \/ SendAttempt
    \/ DiagUpdate
    \/ ApiReturn
    \/ Tick
    \/ WorkerReceive
    \/ WorkerResolve
    \/ WorkerMarkRunning
    \/ WorkerExec
    \/ WorkerWriteError
    \/ WorkerIndex
    \/ WorkerWriteDone
    \/ WorkerAck
    \/ WorkerCrash

ToolSpec == ToolInit /\ [][ToolNext]_vars

\* ---- C34

score_per_keyword(item, keywords) ==
    LET InContent(k) == \E w \in item.searchable_content : Substr(k, w)
        InTags(k) == \E n \in DOMAIN item.semantic_tags : TagMatches(item.semantic_tags[n], <<k>>)
        InTexts(k) == \E n \in DOMAIN item.text_content : Substr(k, item.text_content[n])
        points == [i \in DOMAIN keywords |->
                     (IF InContent(keywords[i]) THEN 2 ELSE 0)
                     + (IF InTags(keywords[i]) THEN TagWeight ELSE 0)
                     + (IF InTexts(keywords[i]) THEN 3 ELSE 0)
                     + (IF keywords[i] \in item.searchable_content THEN 1 ELSE 0)]
    IN  SumSeq(points)

\* C35: the score of every job of an answer is the sum, over the keywords of
\* the query, of 1.0 for the content, 2.0 for a tag, 1.5 for a text snippet
\* and 0.5 for a whole word, and it is not zero.
C35_ScoreIsPerKeywordSum ==
    Searched =>
        \A n \in DOMAIN api.jobs :
            /\ ScoreAt(n) > 0
            /\ ScoreAt(n) = score_per_keyword(api.search.snapshot[api.jobs[n]],
                                              query_keywords(api.search.query))

\* ---- queries of several words

SynonymQueries == {"welche autos", "welche blauen roten autos"}

\* queries that only name an intent
IntentQueries == {"text", "blackframes"}

SynonymNext ==
    \/ \E query \in SynonymQueries \cup IntentQueries, limit \in 1..MaxItems,
          user_id \in Users \cup {None}, session_id \in Sessions \cup {None} :
          SemanticSearch(query, limit, user_id, session_id)
    \/ ApiReturn

SynonymSpec == CacheInit /\ [][SynonymNext]_vars

\* item carries the tag
Tagged(item, tag) == \E n \in DOMAIN item.semantic_tags : item.semantic_tags[n] = tag

\* ---- C36

\* C36: a search for "welche Autos", with or without further words, that asks
\* for as many results as there are jobs returns every job of the caller's
\* scope that is tagged "car".
C36_SynonymsAdditive ==
    (Searched /\ api.search.query \in SynonymQueries /\ api.search.limit = MaxItems)
        => \A j \in SearchIds :
              (/\ Tagged(api.search.snapshot[j], "car")
               /\ api.user # None => api.search.snapshot[j].user_id = api.user
               /\ api.session # None => api.search.snapshot[j].session_id = api.session)
                  => \E n \in DOMAIN api.jobs : api.jobs[n] = j

\* ---- C37

\* the jobs of the caller's scope in the table the search read
InScope(j) ==
    /\ api.user # None => api.search.snapshot[j].user_id = api.user
    /\ api.session # None => api.search.snapshot[j].session_id = api.session

\* C37: a search that only names the on-screen-text intent (the black-frame
\* intent) and asks for as many results as there are jobs returns the jobs
\* of the caller's scope with has_text (has_blackframes), and only those.
C37_IntentUsesStructuralFilter ==
    (Searched /\ api.search.query \in IntentQueries /\ api.search.limit = MaxItems)
        => \A j \in SearchIds :
              (\E n \in DOMAIN api.jobs : api.jobs[n] = j)
                 <=> /\ InScope(j)
                     /\ IF api.search.query = "text"
                        THEN api.search.snapshot[j].has_text
                        ELSE api.search.snapshot[j].has_blackframes

\* ---- the search fields of one analysis result (store_video_analysis)

\* the caps of store_video_analysis
KeywordCap == 50      \* search_keywords[:50]
ContentCap == 100     \* search_keywords[:100] joined into searchable_content
TagCap == 30          \* labels[:30]
TextCap == 10         \* text_content[:10]

\* str.lower() for the words of this model
Lower(w) ==
    CASE w = "Car" -> "car"
      [] w = "BMW" -> "bmw"
      [] w = "Clip" -> "clip"
      [] OTHER -> w

\* s[:n]
Take(s, n) == SubSeq(s, 1, IF n < Len(s) THEN n ELSE Len(s))

\* what an analysis hands to store_video_analysis: the words of the file key
\* (longer than two letters), the labels, the texts found (one word each; a
\* result with a text detection has at least one text), and whether it holds
\* a black-frame analysis
AnalysisResults ==
    {[key |-> <<"clip">>, labels |-> <<>>, texts |-> <<>>, blackframes |-> TRUE],
     [key |-> <<"Clip">>, labels |-> <<"Car">>, texts |-> <<"BMW">>, blackframes |-> TRUE],
     [key |-> <<"car">>, labels |-> <<"Car">>, texts |-> <<>>, blackframes |-> FALSE],
     [key |-> <<"clip">>, labels |-> <<>>, texts |-> <<"BMW">>, blackframes |-> FALSE],
     [key |-> <<"clip">>, labels |-> [n \in 1..(KeywordCap + 1) |-> "Car"], texts |-> <<>>,
      blackframes |-> FALSE]}

\* search_keywords as store_video_analysis collects them: the lower-cased
\* words of the key, then the lower-cased labels, then the lower-cased words
\* of the texts
search_keywords(r) ==
    [n \in DOMAIN r.key |-> Lower(r.key[n])]
    \o [n \in DOMAIN r.labels |-> Lower(r.labels[n])]
    \o [n \in DOMAIN r.texts |-> Lower(r.texts[n])]

\* the attributes the update_item of store_video_analysis sets on an item
store_video_analysis_fields(item, r) ==
    [item EXCEPT
       !.search_keywords = Take(search_keywords(r), KeywordCap),
       !.semantic_tags = Take(r.labels, TagCap),
       !.searchable_content = {search_keywords(r)[n] :
                                 n \in {k \in DOMAIN search_keywords(r) : k <= ContentCap}},
       !.text_content = Take(r.texts, TextCap),
       !.has_text = (r.texts # <<>>),
       !.has_blackframes = r.blackframes]

\* a finished job without search fields
Unindexed(u, sid) ==
    [user_id |-> u, session_id |-> sid, search_keywords |-> <<>>, semantic_tags |-> <<>>,
     searchable_content |-> {}, text_content |-> <<>>, has_text |-> FALSE,
     has_blackframes |-> FALSE, updated_at |-> 1]

\* store_video_analysis(job_id, video_metadata, analysis_results) for job j
StoreVideoAnalysis(j, r) ==
    /\ store' = [store EXCEPT ![j] = store_video_analysis_fields(@, r)]
    /\ store' # store
    /\ UNCHANGED <<owner0, nextJob, queue, ndisp, now, api, worker, faults>>

IndexInit ==
    /\ store \in [SearchIds -> {Unindexed(u, sid) : u \in Users, sid \in Sessions}]
    /\ owner0 = [j \in SearchIds |-> store[j].user_id]
    /\ nextJob = MaxItems + 1
    /\ queue = {}
    /\ ndisp = 0
    /\ now = 1
    /\ api = IdleApi
    /\ worker = IdleWorker
    /\ faults = 0

IndexNext == \E j \in SearchIds, r \in AnalysisResults : StoreVideoAnalysis(j, r)

IndexSpec == IndexInit /\ [][IndexNext]_vars

\* ---- C38

\* the words the search keywords of r may be made of
SourceWords(r) ==
    {Lower(r.key[n]) : n \in DOMAIN r.key}
    \cup {Lower(r.labels[n]) : n \in DOMAIN r.labels}
    \cup {Lower(r.texts[n]) : n \in DOMAIN r.texts}

\* C38: the search keywords stored for a job come from the file name, the
\* labels and the text words of its analysis result, are lower-case, hold no
\* word twice and are at most KeywordCap; storing the same result again
\* leaves the search fields as they are.
C38_KeywordsNormalised ==
    [][\A j \in SearchIds, r \in AnalysisResults :
          StoreVideoAnalysis(j, r)
             => LET kw == store'[j].search_keywords
                IN /\ \A n \in DOMAIN kw : kw[n] \in SourceWords(r) /\ Lower(kw[n]) = kw[n]
                   /\ \A m, n \in DOMAIN kw : kw[m] = kw[n] => m = n
                   /\ Len(kw) <= KeywordCap
                   /\ store_video_analysis_fields(store'[j], r) = store'[j]]_vars

====
